---- MODULE Spec2Model ----
(***************************************************************************)
(* Model of package laozi (laozi.go, factory.go): the event archiver that  *)
(* routes every event to one Logger per partition key and closes Loggers   *)
(* that have been idle for LoggerTimeout.                                  *)
(*                                                                         *)
(* Goroutines: the caller of NewLaozi / laozi.Close (main), the producers  *)
(* calling laozi.Log, laozi.route (the router) and laozi.monitorLoggers    *)
(* (the reaper).  Time is discrete.  The code reads the clock only as      *)
(* time.Since(l.LastActive()) and through the ticker, so the state keeps   *)
(* each Logger's idle time (now - LastActive) and the time since the last  *)
(* tick instead of absolute instants.                                      *)
(***************************************************************************)
EXTENDS Integers, Sequences, FiniteSets, TLC

\* ---------------------------------------------------------------- bounds
MaxEvents  == 2     \* calls of laozi.Log over a run
MaxIdle    == 4     \* idle times are counted up to here (above 1.5 x the largest timeout)

\* Every NewLogger call is made for an event, so there are never more Loggers.
MaxLoggers == MaxEvents

Procs  == {"p1", "p2"}
Keys   == {"A", "B"}
Events == {"a", "b", "x"}

\* Config.LoggerTimeout values tried: negative, zero, one unit, two units.
LoggerTimeouts == {-2, 0, 1, 2}

\* Config.EventChannelSize values tried: unbuffered and buffered.
ChannelSizes == {0, 1, 2}

\* The key a failed PartitionKeyFunc returns next to its error, and the map's
\* answer for an absent key.
NoKey    == ""
NoLogger == 0
NoEvent  == [id |-> 0, e |-> ""]
AllKeys  == Keys \cup {NoKey}
NoClose  == [l |-> NoLogger, who |-> "", err |-> FALSE, warned |-> FALSE]

\* ------------------------------------------------------------- variables
VARIABLES
  cfg,         \* *Config: LoggerTimeout, EventChannelSize, PartitionKeyFunc nil or not
  main,        \* "new", "running" (NewLaozi returned r) or "panicked"
  crashed,     \* the Go runtime ended the process (fatal error: concurrent map access)
  phase,       \* time elapsed since the ticker's last tick (0 when it never ticks)
  EventChan,   \* laozi.EventChan: the queued events, oldest first
  enq,         \* number of events handed to EventChan so far
  prod,        \* per producer: where it is in laozi.Log and with which event
  mutex,       \* the embedded sync.RWMutex: "free" or the goroutine holding it
  routingMap,  \* laozi.routingMap: key -> index into loggers, NoLogger when absent
  loggers,     \* every Logger the factory has made, in creation order
  rt,          \* laozi.route: program counter, current event, key and Logger
  mon,         \* laozi.monitorLoggers: program counter, entries left, current key
  tick,        \* a tick is waiting in the channel returned by time.Tick
  sd,          \* laozi.Close: program counter and the state of its range
  delivered,   \* history: the Logger.Log calls made by the router, in order
  dropped,     \* history: events the router dropped
  lastClose    \* the latest Logger.Close call: Logger, caller, error, warning printed

vars == <<cfg, main, crashed, phase, EventChan, enq, prod, mutex,
          routingMap, loggers, rt, mon, tick, sd, delivered, dropped,
          lastClose>>

\* -------------------------------------------------------- pure functions

\* Go integer division truncates toward zero.
Quo(a, b) == IF a >= 0 THEN a \div b ELSE -((-a) \div b)

\* The period handed to time.Tick.
Period == Quo(cfg.LoggerTimeout, 2)

\* The Config.PartitionKeyFunc used here: "x" is an event it cannot partition.
PartitionKeyFunc(e) ==
  CASE e = "a" -> [key |-> "A", err |-> FALSE]
    [] e = "b" -> [key |-> "B", err |-> FALSE]
    [] OTHER   -> [key |-> NoKey, err |-> TRUE]

\* Mutant of valid: the LoggerTimeout check is missing.
validNoTimeout(c) == ~c.keyFuncNil

\* Config.valid: TRUE when it returns, FALSE when it panics.
valid(c) == c.LoggerTimeout # 0 /\ ~c.keyFuncNil

\* Mutant of NewLogger: the Logger is made for another key.
NewLoggerOtherKey(key) ==
  [key |-> NoKey, idle |-> 0, closedBy |-> <<>>, late |-> FALSE,
   idleAtEvict |-> -1, afterClose |-> sd.pc # "idle"]

\* LoggerFactory.NewLogger: a fresh Logger with active: time.Now(), so idle for 0.
NewLogger(key) ==
  [key |-> key, idle |-> 0, closedBy |-> <<>>, late |-> FALSE,
   idleAtEvict |-> -1, afterClose |-> sd.pc # "idle"]

\* Mutant of Found: the lookup never finds the key.
FoundNever(key) == FALSE

\* l, found := r.routingMap[key]
Found(key) == routingMap[key] # NoLogger

\* The Loggers the map holds.
InMap == {routingMap[k] : k \in AllKeys} \ {NoLogger}

\* Mutant of Stale: every Logger counts as idle.
StaleAlways(l) == TRUE

\* time.Since(l.LastActive()) >= r.LoggerTimeout
Stale(l) == loggers[l].idle >= cfg.LoggerTimeout

Alive == main = "running" /\ ~crashed

\* Mutant of Unlocked: Lock never waits.
UnlockedAlways == TRUE

\* r.Lock() can return: nobody holds the mutex.
Unlocked == mutex = "free"

\* A write of routingMap while laozi.Close ranges over it without the lock is
\* a data race: the runtime may stop the process or let both go on.
RaceOutcomes == IF sd.pc = "range" THEN {TRUE, FALSE} ELSE {FALSE}

\* ------------------------------------------------------------------ Init
Init ==
  /\ cfg \in [LoggerTimeout : LoggerTimeouts, EventChannelSize : ChannelSizes,
              keyFuncNil : BOOLEAN]
  /\ main = "new"
  /\ crashed = FALSE
  /\ phase = 0
  /\ EventChan = <<>>
  /\ enq = 0
  /\ prod = [p \in Procs |-> [pc |-> "idle", e |-> ""]]
  /\ mutex = "free"
  /\ routingMap = [k \in AllKeys |-> NoLogger]
  /\ loggers = <<>>
  /\ rt = [pc |-> "off", ev |-> NoEvent, key |-> NoKey, l |-> NoLogger]
  /\ mon = [pc |-> "off", todo |-> {}, key |-> NoKey]
  /\ tick = FALSE
  /\ sd = [pc |-> "idle", atCall |-> {}, seen |-> {}]
  /\ delivered = <<>>
  /\ dropped = {}
  /\ lastClose = NoClose

\* ------------------------------------------------------------- NewLaozi
\* NewLaozi: build r, validate the config, start both goroutines, return r.
\* The reaper's time.Tick(r.LoggerTimeout / 2) is called at once.
NewLaozi ==
  /\ main = "new"
  /\ IF valid(cfg)
       THEN /\ main' = "running"
            /\ mon' = [mon EXCEPT !.pc = "wait"]
            /\ rt' = [rt EXCEPT !.pc = "recv"]
       ELSE /\ main' = "panicked"
            /\ UNCHANGED <<mon, rt>>
  /\ UNCHANGED <<lastClose, cfg, crashed, phase, EventChan, enq, prod, mutex,
                 routingMap, loggers, tick, sd, delivered, dropped>>

\* ------------------------------------------------------------ laozi.Log
\* Producers inside laozi.Log, at the channel send.
Sending == Cardinality({p \in Procs : prod[p].pc = "send"})

\* A producer calls r.Log(e) and reaches the channel send.
LogCall(p, e) ==
  /\ Alive
  /\ prod[p].pc = "idle"
  /\ enq + Sending < MaxEvents
  /\ prod' = [prod EXCEPT ![p] = [pc |-> "send", e |-> e]]
  /\ UNCHANGED <<lastClose, cfg, main, crashed, phase, EventChan, enq, mutex, routingMap,
                 loggers, rt, mon, tick, sd, delivered, dropped>>

\* Mutant of CanSend: the buffer takes one event more than its size.
CanSendOneMore == Len(EventChan) <= cfg.EventChannelSize

\* r.EventChan <- e can complete: there is room in the buffer.
CanSend == Len(EventChan) < cfg.EventChannelSize

\* r.EventChan <- e completes and Log returns.
LogSend(p) ==
  /\ Alive
  /\ prod[p].pc = "send"
  /\ CanSend
  /\ EventChan' = Append(EventChan, [id |-> enq + 1, e |-> prod[p].e])
  /\ enq' = enq + 1
  /\ prod' = [prod EXCEPT ![p] = [pc |-> "idle", e |-> ""]]
  /\ UNCHANGED <<lastClose, cfg, main, crashed, phase, mutex, routingMap, loggers,
                 rt, mon, tick, sd, delivered, dropped>>

\* ------------------------------------------------------------ the clock
\* The ticker of time.Tick(d) fires every d after the call; d <= 0 gives a nil
\* channel that never delivers.  The channel holds one tick; more are dropped.
NextPhase == IF Period > 0 THEN (phase + 1) % Period ELSE 0

TickDue == Period > 0 /\ NextPhase = 0

Min(a, b) == IF a <= b THEN a ELSE b

\* One unit of time passes for a Logger of the map.
Older(lg) == [lg EXCEPT !.idle = Min(@ + 1, MaxIdle)]

\* One unit of time passes.
Tock ==
  /\ Alive
  /\ phase' = NextPhase
  /\ tick' = (tick \/ TickDue)
  /\ loggers' = [l \in DOMAIN loggers |->
                   IF l \in InMap THEN Older(loggers[l]) ELSE loggers[l]]
  /\ UNCHANGED <<lastClose, cfg, main, crashed, EventChan, enq, prod, mutex, routingMap,
                 rt, mon, sd, delivered, dropped>>

\* ---------------------------------------------------------- laozi.route
\* Mutant of Receive: the router takes the newest queued event.
ReceiveNewest(ch) == [ev |-> ch[Len(ch)], rest |-> SubSeq(ch, 1, Len(ch) - 1)]

\* for e := range r.EventChan: the oldest queued event.
Receive(ch) == [ev |-> Head(ch), rest |-> Tail(ch)]

\* Mutant of Skip: every event is skipped.
SkipAlways(r) == TRUE

\* Mutant of Skip: the `continue` is missing.
SkipNever(r) == FALSE

\* if err != nil { continue }
Skip(r) == r.err

\* key, err := r.PartitionKeyFunc(e), then drop the event or go on to the lock.
Dispatch(ev) ==
  LET r == PartitionKeyFunc(ev.e) IN
  IF Skip(r)
    THEN /\ dropped' = dropped \cup {ev}
         /\ UNCHANGED rt
    ELSE /\ rt' = [rt EXCEPT !.pc = "lock", !.ev = ev, !.key = r.key]
         /\ UNCHANGED dropped

\* The router takes the next event from the buffer.
RouteRecv ==
  /\ Alive
  /\ rt.pc = "recv"
  /\ EventChan # <<>>
  /\ EventChan' = Receive(EventChan).rest
  /\ Dispatch(Receive(EventChan).ev)
  /\ UNCHANGED <<lastClose, cfg, main, crashed, phase, enq, prod, mutex, routingMap,
                 loggers, mon, tick, sd, delivered>>

\* The buffer is empty and a producer is at its send: the event goes from the
\* sender to the waiting router directly (the only way when the size is 0).
RouteRecvDirect(p) ==
  /\ Alive
  /\ rt.pc = "recv"
  /\ EventChan = <<>>
  /\ prod[p].pc = "send"
  /\ enq' = enq + 1
  /\ prod' = [prod EXCEPT ![p] = [pc |-> "idle", e |-> ""]]
  /\ Dispatch([id |-> enq + 1, e |-> prod[p].e])
  /\ UNCHANGED <<lastClose, cfg, main, crashed, phase, EventChan, mutex, routingMap,
                 loggers, mon, tick, sd, delivered>>

\* r.Lock(); l, found := r.routingMap[key];
\* if !found { l = r.LoggerFactory.NewLogger(key); r.routingMap[key] = l }
\* The router holds the lock from here until RouteUnlock.
RouteLookup ==
  /\ Alive
  /\ rt.pc = "lock"
  /\ Unlocked
  /\ mutex' = "route"
  /\ IF Found(rt.key)
       THEN /\ rt' = [rt EXCEPT !.pc = "unlock", !.l = routingMap[rt.key]]
            /\ UNCHANGED <<routingMap, loggers, crashed>>
       ELSE /\ Len(loggers) < MaxLoggers
            /\ loggers' = Append(loggers, NewLogger(rt.key))
            /\ routingMap' = [routingMap EXCEPT ![rt.key] = Len(loggers) + 1]
            /\ rt' = [rt EXCEPT !.pc = "unlock", !.l = Len(loggers) + 1]
            /\ crashed' \in RaceOutcomes
  /\ UNCHANGED <<lastClose, cfg, main, phase, EventChan, enq, prod, mon, tick, sd,
                 delivered, dropped>>

\* Mutant of RouteUnlock: the router goes on to l.Log(e) with the lock held.
RouteUnlockKeeps ==
  /\ Alive
  /\ rt.pc = "unlock"
  /\ rt' = [rt EXCEPT !.pc = "log"]
  /\ UNCHANGED <<lastClose, cfg, main, crashed, phase, EventChan, enq, prod, mutex,
                 routingMap, loggers, mon, tick, sd, delivered, dropped>>

\* r.Unlock()
RouteUnlock ==
  /\ Alive
  /\ rt.pc = "unlock"
  /\ mutex' = "free"
  /\ rt' = [rt EXCEPT !.pc = "log"]
  /\ UNCHANGED <<lastClose, cfg, main, crashed, phase, EventChan, enq, prod,
                 routingMap, loggers, mon, tick, sd, delivered, dropped>>

\* Logger.Log: the Logger takes the event and is active as of now.
LoggerLog(lg) == [lg EXCEPT !.idle = 0, !.late = @ \/ lg.closedBy # <<>>]

\* l.Log(e), outside the lock
RouteLog ==
  /\ Alive
  /\ rt.pc = "log"
  /\ loggers' = [loggers EXCEPT ![rt.l] = LoggerLog(@)]
  /\ delivered' = Append(delivered, [id |-> rt.ev.id, e |-> rt.ev.e, l |-> rt.l])
  /\ rt' = [pc |-> "recv", ev |-> NoEvent, key |-> NoKey, l |-> NoLogger]
  /\ UNCHANGED <<lastClose, cfg, main, crashed, phase, EventChan, enq, prod, mutex,
                 routingMap, mon, tick, sd, dropped>>

\* -------------------------------------------------- laozi.monitorLoggers
\* Logger.Close called by `who`: one more Close on this Logger.  idleAtEvict
\* records how long it had been idle when the reaper closed it.
LoggerClose(lg, who) ==
  [lg EXCEPT !.closedBy = Append(@, who),
             !.idleAtEvict = IF who = "monitor" THEN lg.idle ELSE @]

\* What a Close call on Logger l by `who` returned: an error or nil.
CloseResult(l, who, err) == [l |-> l, who |-> who, err |-> err, warned |-> FALSE]

\* fmt.Printf(" [laozi] Error! Could not close logger (possible data loss): %s\n", key)
Warning(res) == [res EXCEPT !.warned = TRUE]

\* Mutant of Evicts: the entry is deleted only when Close succeeded.
EvictsOnSuccess(err) == ~err

\* delete(r.routingMap, key) follows l.Close() whatever Close returned.
Evicts(err) == TRUE

\* for _ = range time.Tick(...): the reaper takes the waiting tick.
MonTick ==
  /\ Alive
  /\ mon.pc = "wait"
  /\ tick
  /\ tick' = FALSE
  /\ mon' = [mon EXCEPT !.pc = "lock"]
  /\ UNCHANGED <<lastClose, cfg, main, crashed, phase, EventChan, enq, prod, mutex,
                 routingMap, loggers, rt, sd, delivered, dropped>>

\* r.Lock(); the range over r.routingMap starts.
MonLock ==
  /\ Alive
  /\ mon.pc = "lock"
  /\ Unlocked
  /\ mutex' = "monitor"
  /\ mon' = [mon EXCEPT !.pc = "scan", !.todo = {k \in AllKeys : Found(k)}]
  /\ UNCHANGED <<lastClose, cfg, main, crashed, phase, EventChan, enq, prod,
                 routingMap, loggers, rt, tick, sd, delivered, dropped>>

\* The next entry of the range: if time.Since(l.LastActive()) >= r.LoggerTimeout
MonCheck(k) ==
  /\ Alive
  /\ mon.pc = "scan"
  /\ k \in mon.todo
  /\ IF Stale(routingMap[k])
       THEN mon' = [mon EXCEPT !.pc = "close", !.key = k]
       ELSE mon' = [mon EXCEPT !.todo = @ \ {k}]
  /\ UNCHANGED <<lastClose, cfg, main, crashed, phase, EventChan, enq, prod, mutex,
                 routingMap, loggers, rt, tick, sd, delivered, dropped>>

\* l.Close() with its result discarded; delete(r.routingMap, key)
MonClose ==
  /\ Alive
  /\ mon.pc = "close"
  /\ loggers' = [loggers EXCEPT ![routingMap[mon.key]] = LoggerClose(@, "monitor")]
  /\ \E err \in BOOLEAN :
       /\ lastClose' = CloseResult(routingMap[mon.key], "monitor", err)
       /\ IF Evicts(err)
            THEN /\ routingMap' = [routingMap EXCEPT ![mon.key] = NoLogger]
                 /\ crashed' \in RaceOutcomes
            ELSE UNCHANGED <<routingMap, crashed>>
  /\ mon' = [mon EXCEPT !.pc = "scan", !.todo = @ \ {mon.key}, !.key = NoKey]
  /\ UNCHANGED <<cfg, main, phase, EventChan, enq, prod, mutex, rt, tick,
                 sd, delivered, dropped>>

\* The range is over: r.Unlock(), back to waiting for a tick.
MonUnlock ==
  /\ Alive
  /\ mon.pc = "scan"
  /\ mon.todo = {}
  /\ mutex' = "free"
  /\ mon' = [mon EXCEPT !.pc = "wait"]
  /\ UNCHANGED <<lastClose, cfg, main, crashed, phase, EventChan, enq, prod,
                 routingMap, loggers, rt, tick, sd, delivered, dropped>>

\* ---------------------------------------------------------- laozi.Close
\* r.Close() is called: the range over r.routingMap starts, without the lock.
\* Over an empty map it ends at once.
CloseCall ==
  /\ Alive
  /\ sd.pc = "idle"
  /\ sd' = [sd EXCEPT !.pc = IF InMap = {} THEN "done" ELSE "range", !.atCall = InMap]
  /\ UNCHANGED <<lastClose, cfg, main, crashed, phase, EventChan, enq, prod, mutex,
                 routingMap, loggers, rt, mon, tick, delivered, dropped>>

\* Mutant of CloseOne: laozi.Close also deletes the entry it has closed.
CloseOneDeletes(l) ==
  /\ Alive
  /\ sd.pc = "range"
  /\ l \in InMap \ sd.seen
  /\ loggers' = [loggers EXCEPT ![l] = LoggerClose(@, "Close")]
  /\ lastClose' = CloseResult(l, "Close", FALSE)
  /\ routingMap' = [k \in AllKeys |-> IF routingMap[k] = l THEN NoLogger
                                                           ELSE routingMap[k]]
  /\ sd' = [sd EXCEPT !.seen = @ \cup {l}]
  /\ UNCHANGED <<cfg, main, crashed, phase, EventChan, enq, prod, mutex,
                 rt, mon, tick, delivered, dropped>>

\* for key, l := range r.routingMap { err := l.Close(); if err != nil {...} }:
\* one entry of the map that the range has not produced yet.
CloseOne(l) ==
  /\ Alive
  /\ sd.pc = "range"
  /\ l \in InMap \ sd.seen
  /\ loggers' = [loggers EXCEPT ![l] = LoggerClose(@, "Close")]
  /\ \E err \in BOOLEAN :
       lastClose' = IF err THEN Warning(CloseResult(l, "Close", err))
                           ELSE CloseResult(l, "Close", err)
  /\ sd' = [sd EXCEPT !.seen = @ \cup {l}]
  /\ UNCHANGED <<cfg, main, crashed, phase, EventChan, enq, prod, mutex,
                 routingMap, rt, mon, tick, delivered, dropped>>

\* The range ends: every entry that was there when it started and still is has
\* been produced (an entry inserted meanwhile may or may not be produced).
CloseReturn ==
  /\ Alive
  /\ sd.pc = "range"
  /\ (InMap \cap sd.atCall) \subseteq sd.seen
  /\ sd' = [sd EXCEPT !.pc = "done"]
  /\ UNCHANGED <<lastClose, cfg, main, crashed, phase, EventChan, enq, prod, mutex,
                 routingMap, loggers, rt, mon, tick, delivered, dropped>>

\* -------------------------------------------------------- specifications
Next ==
  \/ NewLaozi
  \/ \E p \in Procs, e \in Events : LogCall(p, e)
  \/ \E p \in Procs : LogSend(p)
  \/ Tock
  \/ RouteRecv
  \/ \E p \in Procs : RouteRecvDirect(p)
  \/ RouteLookup
  \/ RouteUnlock
  \/ RouteLog
  \/ MonTick
  \/ MonLock
  \/ \E k \in AllKeys : MonCheck(k)
  \/ MonClose
  \/ MonUnlock
  \/ CloseCall
  \/ \E l \in 1..MaxLoggers : CloseOne(l)
  \/ CloseReturn

Spec == Init /\ [][Next]_vars

\* The same program on a clock that waits for the reaper: time does not pass
\* while a tick is waiting or a sweep is under way, so every sweep runs at the
\* instant of its tick.
TockTimed ==
  /\ ~tick
  /\ mon.pc = "wait"
  /\ Tock

NextTimed ==
  \/ NewLaozi
  \/ \E p \in Procs, e \in Events : LogCall(p, e)
  \/ \E p \in Procs : LogSend(p)
  \/ TockTimed
  \/ RouteRecv
  \/ \E p \in Procs : RouteRecvDirect(p)
  \/ RouteLookup
  \/ RouteUnlock
  \/ RouteLog
  \/ MonTick
  \/ MonLock
  \/ \E k \in AllKeys : MonCheck(k)
  \/ MonClose
  \/ MonUnlock
  \/ CloseCall
  \/ \E l \in 1..MaxLoggers : CloseOne(l)
  \/ CloseReturn

SpecTimed == Init /\ [][NextTimed]_vars

\* ---------------------------------------------------------------- claims
Made == 1..Len(loggers)

Closes(l) == Len(loggers[l].closedBy)

ClosedBy(l, who) == \E i \in 1..Closes(l) : loggers[l].closedBy[i] = who

\* The Loggers of key k that the factory made and nobody closed.
Live(k) == {l \in Made : loggers[l].key = k /\ Closes(l) = 0}

\* C1: for every partition key at most one Logger has been made and not yet
\* closed; as long as no Logger of a key has been closed, NewLogger has been
\* called at most once for that key.
C1_OneLivePerKey ==
  \A k \in AllKeys :
    /\ Cardinality(Live(k)) <= 1
    /\ (\A l \in Made : loggers[l].key = k => Closes(l) = 0)
         => Cardinality({l \in Made : loggers[l].key = k}) <= 1

\* C1 witness: a key whose first Logger was evicted by the reaper has a second,
\* live Logger.
C1_Witness ==
  /\ Len(loggers) = 2
  /\ loggers[1].key = loggers[2].key
  /\ ClosedBy(1, "monitor")
  /\ Closes(2) = 0
  /\ routingMap[loggers[2].key] = 2

\* C2: the router never calls Log on a Logger on which Close has been called.
C2_NoLogAfterClose == \A l \in Made : ~loggers[l].late

\* C3: Close is called at most once on each Logger.
C3_CloseAtMostOnce == \A l \in Made : Closes(l) <= 1

\* C4: the Log calls for events of one key are made in the order in which the
\* events entered the channel.
C4_PerKeyOrder ==
  \A i, j \in 1..Len(delivered) :
    (i < j /\ PartitionKeyFunc(delivered[i].e).key = PartitionKeyFunc(delivered[j].e).key)
      => delivered[i].id < delivered[j].id

\* C4 witness: two events of one key were logged, the second to the Logger made
\* after the first one's Logger was evicted.
C4_Witness ==
  /\ Len(delivered) = 2
  /\ delivered[1].e = delivered[2].e
  /\ delivered[1].l # delivered[2].l
  /\ ClosedBy(delivered[1].l, "monitor")

\* C5: when laozi.Close returns, it has called Close on every Logger that was
\* in the map when it was called.
C5_CloseClosesAll ==
  sd.pc = "done" => \A l \in sd.atCall : ClosedBy(l, "Close")

\* C6: no Logger is made after laozi.Close has been called.
C6_NoLoggerAfterClose == \A l \in Made : ~loggers[l].afterClose

\* C7: when the reaper ticks, a Logger is closed and evicted by the reaper no
\* earlier than LoggerTimeout and no later than 1.5 x LoggerTimeout after its
\* last activity, and no Logger stays in the map longer than that.
C7_EvictWindow ==
  Period > 0 =>
    /\ \A l \in Made :
         ClosedBy(l, "monitor") =>
           /\ loggers[l].idleAtEvict >= cfg.LoggerTimeout
           /\ 2 * loggers[l].idleAtEvict <= 3 * cfg.LoggerTimeout
    /\ \A l \in InMap : 2 * loggers[l].idle <= 3 * cfg.LoggerTimeout

\* C8: an event whose PartitionKeyFunc fails is dropped: it reaches no Logger,
\* no Logger is made for it, and the step that drops it changes neither the
\* map nor any Logger and leaves the router waiting for the next event.
C8_DropState ==
  /\ \A d \in dropped : PartitionKeyFunc(d.e).err
  /\ \A i \in 1..Len(delivered) : ~PartitionKeyFunc(delivered[i].e).err
  /\ rt.pc \in {"lock", "unlock", "log"} => ~PartitionKeyFunc(rt.ev.e).err
  /\ \A l \in Made : loggers[l].key # NoKey

\* The router has just taken event ev, from the buffer or from a sender.
Took(ev) ==
  \/ EventChan # <<>> /\ ev = Head(EventChan) /\ EventChan' = Tail(EventChan)
  \/ /\ EventChan = <<>> /\ EventChan' = <<>> /\ enq' = enq + 1 /\ ev.id = enq + 1
     /\ \E p \in Procs : prod[p].pc = "send" /\ prod'[p].pc = "idle" /\ prod[p].e = ev.e

C8_DropStep ==
  \A e \in Events, id \in 1..MaxEvents :
    (Took([id |-> id, e |-> e]) /\ PartitionKeyFunc(e).err)
      => /\ routingMap' = routingMap
         /\ loggers' = loggers
         /\ delivered' = delivered
         /\ rt' = rt /\ rt.pc = "recv"
         /\ dropped' = dropped \cup {[id |-> id, e |-> e]}

\* C8: a failed PartitionKeyFunc drops the event and nothing else: the state
\* property above holds always and every step that takes such an event is a
\* silent drop.
C8_DropIsSilent == []C8_DropState /\ [][C8_DropStep]_vars

\* C8 witness: an event was dropped and a later event was logged.
C8_Witness ==
  /\ \E d \in dropped : d.id = 1
  /\ Len(delivered) = 1
  /\ delivered[1].id = 2

\* C9: with a zero LoggerTimeout or a nil PartitionKeyFunc NewLaozi panics
\* with neither loop started and no event accepted; otherwise it returns with
\* both loops started.
C9_Invalid == cfg.LoggerTimeout = 0 \/ cfg.keyFuncNil

\* C9: an invalid Config makes NewLaozi panic before either loop starts and
\* before any event is accepted; a valid one starts both loops.
C9_FailFast ==
  /\ (main # "new" /\ C9_Invalid) => main = "panicked"
  /\ main = "panicked" =>
       /\ rt.pc = "off" /\ mon.pc = "off"
       /\ enq = 0 /\ Sending = 0 /\ EventChan = <<>> /\ loggers = <<>>
  /\ (main # "new" /\ ~C9_Invalid) =>
       main = "running" /\ rt.pc # "off" /\ mon.pc # "off"

\* C9 witness: NewLaozi has panicked on a zero LoggerTimeout.
C9_Witness == main = "panicked" /\ cfg.LoggerTimeout = 0 /\ ~cfg.keyFuncNil

\* C10: the channel never holds more than EventChannelSize events; no event
\* given to Log is lost or doubled on its way to the router; a sender finds
\* the send open exactly when the buffer has room; and a sender that finds
\* the buffer at capacity gets past its send only in a step in which the
\* router takes an event.
C10_Ids ==
  {EventChan[i].id : i \in 1..Len(EventChan)}
    \cup {delivered[i].id : i \in 1..Len(delivered)}
    \cup {d.id : d \in dropped}
    \cup (IF rt.pc \in {"lock", "unlock", "log"} THEN {rt.ev.id} ELSE {})

C10_InFlight ==
  Len(EventChan) + Len(delivered) + Cardinality(dropped)
    + (IF rt.pc \in {"lock", "unlock", "log"} THEN 1 ELSE 0)

C10_State ==
  /\ Len(EventChan) <= cfg.EventChannelSize
  /\ C10_Ids = 1..enq
  /\ C10_InFlight = enq
  /\ \A p \in Procs :
       (Alive /\ prod[p].pc = "send") =>
         (ENABLED LogSend(p) <=> Len(EventChan) < cfg.EventChannelSize)

C10_Step ==
  \A p \in Procs :
    (prod[p].pc = "send" /\ prod'[p].pc = "idle"
       /\ Len(EventChan) >= cfg.EventChannelSize)
      => (rt.pc = "recv" /\ (rt'.pc = "lock" \/ dropped' # dropped))

C11_Drained ==
  /\ enq > 0
  /\ EventChan = <<>>
  /\ Sending = 0
  /\ rt.pc = "recv"

\* Neither the reaper nor laozi.Close has closed a Logger.
C11_Undisturbed == sd.pc = "idle" /\ \A l \in Made : Closes(l) = 0

\* C11: when all N events given to Log map to one key, nothing was evicted or
\* shut down and the channel is drained, the map holds one Logger for the key,
\* NewLogger was called once, and that Logger got one Log call per event: N
\* calls, no event lost or doubled.
C11_ExactlyOnce ==
  \A k \in Keys :
    ( /\ C11_Drained
      /\ C11_Undisturbed
      /\ \A d \in dropped : PartitionKeyFunc(d.e).key = k
      /\ \A i \in 1..Len(delivered) : PartitionKeyFunc(delivered[i].e).key = k )
    => /\ Len(loggers) = 1
       /\ loggers[1].key = k
       /\ routingMap[k] = 1
       /\ \A j \in AllKeys \ {k} : routingMap[j] = NoLogger
       /\ Len(delivered) = enq
       /\ {delivered[i].id : i \in 1..Len(delivered)} = 1..enq
       /\ \A i \in 1..Len(delivered) : delivered[i].l = 1

\* C11 witness: two events of key A were given to Log and both were routed to
\* the one Logger of the key, with no eviction and no shutdown.
C11_Witness ==
  /\ C11_Drained
  /\ C11_Undisturbed
  /\ enq = MaxEvents
  /\ Len(delivered) = enq
  /\ \A i \in 1..Len(delivered) : delivered[i].e = "a" /\ delivered[i].l = 1
  /\ routingMap["A"] = 1

\* C12: a Close that returned an error, whether called by the reaper or by
\* laozi.Close, is followed by the warning naming the Logger's key.
C12_CloseErrorWarned == lastClose.err => lastClose.warned

\* The reaper is inside its sweep, holding the lock.
Sweeping == mon.pc \in {"scan", "close"}

C13_State ==
  /\ \A l \in Made : ClosedBy(l, "monitor") => l \notin InMap
  /\ mon.pc = "close" => (mon.key \in mon.todo /\ Found(mon.key))
  /\ (Alive /\ mon.pc = "wait" /\ tick) => ENABLED MonTick

C13_Step ==
  /\ (mon.pc = "close" /\ mon' # mon) =>
        LET l == routingMap[mon.key] IN
        /\ loggers'[l].closedBy = Append(loggers[l].closedBy, "monitor")
        /\ routingMap'[mon.key] = NoLogger
        /\ mon'.pc = "scan"
        /\ mon'.todo = mon.todo \ {mon.key}
  /\ (mon.pc = "scan" /\ mon'.pc = "scan") =>
        \A k \in mon.todo \ mon'.todo : ~Stale(routingMap[k])
  /\ (mon.pc = "scan" /\ mon'.pc = "wait") => mon.todo = {}

\* C13: the reaper removes every Logger it closes, whether Close returned an
\* error or not; after a Close the sweep goes on with all the entries it has
\* not visited, it leaves no idle entry unclosed, it ends only when every
\* entry has been visited, and the reaper then takes the next tick.
C13_SweepSurvivesCloseError == []C13_State /\ [][C13_Step]_vars

\* C13 witness: the reaper's Close of one key's Logger failed, that Logger is
\* out of the map, and the sweep has gone on to find the other key's Logger
\* idle and is about to close it.
C13_Witness ==
  /\ lastClose.who = "monitor" /\ lastClose.err
  /\ lastClose.l \notin InMap
  /\ mon.pc = "close"
  /\ loggers[lastClose.l].key # mon.key

C14_State ==
  /\ rt.pc = "unlock" => mutex = "route"
  /\ Sweeping => mutex = "monitor"
  /\ ~(rt.pc = "unlock" /\ Sweeping)

C14_Step ==
  Sweeping =>
    /\ rt.pc = "lock" => rt' = rt
    /\ Len(loggers') = Len(loggers)
    /\ \A k \in AllKeys :
         routingMap'[k] # routingMap[k] =>
           (mon.pc = "close" /\ k = mon.key /\ routingMap'[k] = NoLogger)

\* C14: the router between its Lock and Unlock and the reaper inside its sweep
\* each hold the mutex, so they are never there together; during a sweep the
\* router neither looks up nor inserts, and the map changes only by the
\* reaper's delete of the entry it has just checked.
C14_RouterReaperExclusive == []C14_State /\ [][C14_Step]_vars

\* C14 witness: the reaper has found an entry idle and not yet deleted it
\* while the router waits at Lock with an event of the same key.
C14_Witness ==
  /\ mon.pc = "close"
  /\ rt.pc = "lock"
  /\ rt.key = mon.key

\* C15: while laozi.Close ranges over the map, the map is the one it started
\* with (the router has inserted nothing, the reaper has deleted nothing) and
\* neither the router nor the reaper is inside its locked section.
C15_RegistryExclusive ==
  sd.pc = "range" =>
    /\ InMap = sd.atCall
    /\ rt.pc # "unlock"
    /\ ~Sweeping

\* The Close calls on Logger l in the next state are those of this state and
\* one more, by `who`.
ClosesNow(l, who) == loggers'[l].closedBy = Append(loggers[l].closedBy, who)

C16_Step ==
  /\ \A k \in AllKeys :
       /\ (routingMap[k] = NoLogger /\ routingMap'[k] # NoLogger) =>
             /\ rt.pc = "lock" /\ rt.key = k /\ rt'.pc = "unlock"
             /\ routingMap'[k] = Len(loggers) + 1
             /\ Len(loggers') = Len(loggers) + 1
       /\ (routingMap[k] # NoLogger /\ routingMap'[k] # routingMap[k]) =>
             /\ routingMap'[k] = NoLogger
             /\ mon.pc = "close" /\ mon.key = k
             /\ ClosesNow(routingMap[k], "monitor")
  /\ sd' # sd => routingMap' = routingMap
  /\ prod' # prod => routingMap' = routingMap

\* C16: an entry enters the map only by the router's insert for a key the
\* lookup did not find, and leaves it only by the reaper's delete, in the step
\* in which the reaper calls Close on its Logger; the steps of laozi.Close
\* and of Log leave the map as it is.
C16_WhoChangesRegistry == [][C16_Step]_vars

\* C16 witness: the router has inserted two Loggers of one key, the reaper has
\* removed the first, and laozi.Close has closed the second and returned with
\* it still in the map.
C16_Witness ==
  /\ Len(loggers) = 2
  /\ ClosedBy(1, "monitor")
  /\ InMap = {2}
  /\ ClosedBy(2, "Close")
  /\ sd.pc = "done"

C17_State == mon.pc = "close" => mon.key \in mon.todo

C17_Step ==
  /\ (mon.pc = "scan" /\ mon'.pc = "close") =>
        /\ mon'.key \in mon.todo
        /\ routingMap[mon'.key] # NoLogger
        /\ loggers[routingMap[mon'.key]].idle >= cfg.LoggerTimeout
  /\ \A l \in Made :
       (Len(loggers'[l].closedBy) > Len(loggers[l].closedBy) /\ ClosesNow(l, "monitor"))
         => (mon.pc = "close" /\ l = routingMap[mon.key])
  /\ \A k \in AllKeys :
       (routingMap[k] # NoLogger /\ routingMap'[k] = NoLogger)
         => (mon.pc = "close" /\ k = mon.key)
  /\ (mon.pc = "scan" /\ mon'.pc = "scan") =>
        \A k \in mon.todo \ mon'.todo :
          /\ loggers[routingMap[k]].idle < cfg.LoggerTimeout
          /\ routingMap'[k] = routingMap[k]
          /\ loggers'[routingMap[k]].closedBy = loggers[routingMap[k]].closedBy
  /\ (Sweeping /\ mon'.pc \in {"scan", "close"}) => mon'.todo \subseteq mon.todo

\* C17: the reaper goes on to close an entry only from a check that found
\* now - LastActive >= LoggerTimeout; it closes and deletes nothing but the
\* entry so checked; an entry whose check found it more recent is left
\* unclosed in the map and is not visited again in that sweep.
C17_EvictOnlyIdle == []C17_State /\ [][C17_Step]_vars

\* C17 witness: one sweep has closed and removed the idle Logger of one key
\* and passed over the other key's Logger, which is not idle and still in the
\* map.
C17_Witness ==
  /\ mon.pc = "scan" /\ mon.todo = {}
  /\ Len(loggers) = 2
  /\ ClosedBy(1, "monitor")
  /\ loggers[1].key # loggers[2].key
  /\ InMap = {2}
  /\ loggers[2].idle < cfg.LoggerTimeout
  /\ Closes(2) = 0

C18_State ==
  /\ rt.pc \in {"unlock", "log"} =>
       /\ rt.l \in Made
       /\ loggers[rt.l].key = rt.key
       /\ rt.key = PartitionKeyFunc(rt.ev.e).key
  /\ \A i \in 1..Len(delivered) :
       loggers[delivered[i].l].key = PartitionKeyFunc(delivered[i].e).key

C18_Step ==
  /\ (rt.pc = "lock" /\ rt'.pc = "unlock") =>
        IF routingMap[rt.key] # NoLogger
          THEN /\ rt'.l = routingMap[rt.key]
               /\ Len(loggers') = Len(loggers)
               /\ routingMap' = routingMap
          ELSE /\ Len(loggers') = Len(loggers) + 1
               /\ rt'.l = Len(loggers) + 1
               /\ loggers'[rt'.l].key = rt.key
               /\ loggers'[rt'.l].closedBy = <<>>
               /\ routingMap' = [routingMap EXCEPT ![rt.key] = rt'.l]
  /\ (rt.pc = "unlock" /\ rt' # rt) => (rt'.pc = "log" /\ rt'.l = rt.l /\ rt'.ev = rt.ev)
  /\ (rt.pc = "log" /\ rt' # rt) =>
        delivered' = Append(delivered, [id |-> rt.ev.id, e |-> rt.ev.e, l |-> rt.l])
  /\ delivered' # delivered => rt.pc = "log"
  /\ Len(loggers') # Len(loggers) => rt.pc = "lock"

\* C18: the router gives an event of key k to the Logger the map holds for k
\* at the lookup; when the map holds none it makes exactly one new Logger for
\* k, registers it and gives the event to that Logger, never to an earlier one.
C18_DispatchByLookup == []C18_State /\ [][C18_Step]_vars

\* C18 witness: the first Logger of a key was evicted by the reaper and the
\* router is about to give the key's next event to the second, registered one.
C18_Witness ==
  /\ rt.pc = "log"
  /\ rt.l = 2
  /\ loggers[1].key = rt.key
  /\ ClosedBy(1, "monitor")
  /\ routingMap[rt.key] = 2

C19_State ==
  /\ mutex = "route" <=> rt.pc = "unlock"
  /\ rt.pc = "log" => mutex # "route"
  /\ (Alive /\ rt.pc = "log" /\ mon.pc = "lock" /\ mutex = "free") => ENABLED MonLock
  /\ (Alive /\ rt.pc = "log" /\ mon.pc = "scan" /\ mon.todo = {}) => ENABLED MonUnlock

C19_Step ==
  /\ Len(loggers') # Len(loggers) => (mutex' = "route" /\ ~Sweeping /\ mon' = mon)
  /\ delivered' # delivered => mutex # "route"

\* C19: NewLogger is called only in the router's locked section, where the
\* reaper is not sweeping and cannot start; l.Log(e) is called only after the
\* router's Unlock, so with a Log call pending the reaper can take the lock
\* and finish a sweep.
C19_CreateLockedLogUnlocked == []C19_State /\ [][C19_Step]_vars

\* C19 witness: the reaper has gone through a whole sweep, holding the lock,
\* while the router's l.Log(e) is pending.
C19_Witness ==
  /\ rt.pc = "log"
  /\ mutex = "monitor"
  /\ mon.pc = "scan" /\ mon.todo = {}
  /\ \E l \in Made : ClosedBy(l, "monitor")

\* C20: once NewLaozi has accepted the Config, the period given to time.Tick
\* is strictly positive.
C20_PeriodPositive == main = "running" => Period > 0

====
